---- MODULE Spec2Model ----
(***************************************************************************)
(* A model of streamlit_app.py: the numeric normalisation and summary pass *)
(* (calculate_summary), the per-company batch loop                         *)
(* (process_one_company / process_multiple_companies) and the session list *)
(* of company groups with its add / upload / delete / process buttons.     *)
(*                                                                         *)
(* Numbers.  A Python float is modelled as a record                        *)
(*     [t |-> "float", k |-> "fin" | "inf" | "ninf" | "nan", m |-> Int]    *)
(* where m is the value in thousandths (m = 1500 is 1.5).  Every amount    *)
(* the model feeds in has at most three decimals and an even last digit,   *)
(* so a sum of them is never exactly half-way between two cents: away from *)
(* such ties float arithmetic and exact arithmetic round to the same cent. *)
(* Round2 is deliberately left undefined on a tie (TLC would stop with an  *)
(* error if one were reached).  -0.0 and 0.0 are one value here; Python    *)
(* compares them equal.                                                    *)
(* Text is a sequence of one-character strings.                            *)
(***************************************************************************)
EXTENDS Integers, Sequences, FiniteSets, TLC

VARIABLES
    \* ---- calculate_summary on one decoded object
    input,        \* the object as decoded, before any pass
    data,         \* the object, mutated in place by calculate_summary
    once,         \* the object as it was after the first pass
    passes,       \* number of calculate_summary calls made on data
    raised,       \* exception that escaped the last call, or "none"
    \* ---- the Streamlit session
    invoice_sets, \* st.session_state.invoice_sets
    uploader,     \* value of widget uploader_k, by position
    last,         \* the user action the last script run served
    \* ---- one "Process All Companies" run
    pc,           \* "idle" or "batch" (inside process_multiple_companies)
    submitted,    \* invoice_sets as handed to process_multiple_companies
    companies,    \* the local list companies
    replies,      \* the extraction replies received so far
    log,          \* extraction calls and normalisations, in order
    screen        \* what the run rendered

vars == <<input, data, once, passes, raised, invoice_sets, uploader, last,
          pc, submitted, companies, replies, log, screen>>

normVars == <<input, data, once, passes, raised>>
uiVars == <<invoice_sets, uploader, last, pc, submitted, companies, replies,
            log, screen>>

----------------------------------------------------------------------------
(* Bounds of the model *)

MaxInvoices == 2

----------------------------------------------------------------------------
(* Text *)

Digits == <<"0", "1", "2", "3", "4", "5", "6", "7", "8", "9">>

IsDigit(c) == \E d \in 1..10 : Digits[d] = c

DigitVal(c) == (CHOOSE d \in 1..10 : Digits[d] = c) - 1

AllDigits(s) == \A i \in 1..Len(s) : IsDigit(s[i])

RECURSIVE NatOfDigits(_)
NatOfDigits(s) ==
    IF s = <<>> THEN 0
    ELSE 10 * NatOfDigits(SubSeq(s, 1, Len(s) - 1)) + DigitVal(s[Len(s)])

RECURSIVE DigitsOfNat(_)
DigitsOfNat(n) ==
    IF n < 10 THEN <<Digits[n + 1]>>
    ELSE DigitsOfNat(n \div 10) \o <<Digits[(n % 10) + 1]>>

Abs(n) == IF n < 0 THEN -n ELSE n

----------------------------------------------------------------------------
(* Python values met in a monetary field *)

\* One record shape for all of them: t is the Python type, s the text of a
\* str, n the value of an int, k and m the class and thousandths of a float.
Val(t, s, n, k, m) == [t |-> t, s |-> s, n |-> n, k |-> k, m |-> m]
Str(s) == Val("str", s, 0, "", 0)
JInt(n) == Val("int", <<>>, n, "", 0)
Fin(m) == Val("float", <<>>, 0, "fin", m)
Inf == Val("float", <<>>, 0, "inf", 0)
NInf == Val("float", <<>>, 0, "ninf", 0)
NaN == Val("float", <<>>, 0, "nan", 0)
Null == Val("NoneType", <<>>, 0, "", 0)

\* repr of a finite float given in thousandths: "1234.57", "50000.0", "-5.0"
RECURSIVE StripZeros(_)
StripZeros(s) ==
    IF Len(s) > 1 /\ s[Len(s)] = "0" THEN StripZeros(SubSeq(s, 1, Len(s) - 1))
    ELSE s

FractionDigits(f) ==
    StripZeros(<<Digits[(f \div 100) + 1], Digits[((f \div 10) % 10) + 1],
                 Digits[(f % 10) + 1]>>)

FloatRepr(m) ==
    (IF m < 0 THEN <<"-">> ELSE <<>>)
    \o DigitsOfNat(Abs(m) \div 1000) \o <<".">> \o FractionDigits(Abs(m) % 1000)

\* str(x)
PyStr(v) ==
    CASE v.t = "str" -> v.s
      [] v.t = "int" -> (IF v.n < 0 THEN <<"-">> ELSE <<>>) \o DigitsOfNat(Abs(v.n))
      [] v.t = "NoneType" -> <<"N", "o", "n", "e">>
      [] v.t = "float" ->
           CASE v.k = "fin" -> FloatRepr(v.m)
             [] v.k = "inf" -> <<"i", "n", "f">>
             [] v.k = "ninf" -> <<"-", "i", "n", "f">>
             [] v.k = "nan" -> <<"n", "a", "n">>

\* s.replace(",", "")
StripCommas(s) == SelectSeq(s, LAMBDA c : c # ",")

\* s.strip() for the one white-space character of the model's alphabet
RECURSIVE Strip(_)
Strip(s) ==
    IF s = <<>> THEN s
    ELSE IF Head(s) = " " THEN Strip(Tail(s))
    ELSE IF s[Len(s)] = " " THEN Strip(SubSeq(s, 1, Len(s) - 1))
    ELSE s

Lower(c) ==
    CASE c = "I" -> "i" [] c = "N" -> "n" [] c = "F" -> "f" [] c = "A" -> "a"
      [] OTHER -> c

LowerSeq(s) == [i \in 1..Len(s) |-> Lower(s[i])]

FirstDot(s) ==
    IF \E i \in 1..Len(s) : s[i] = "."
    THEN CHOOSE i \in 1..Len(s) : s[i] = "." /\ \A j \in 1..(i - 1) : s[j] # "."
    ELSE 0

\* float(s): [ok |-> FALSE] stands for ValueError.  Decimal literals carry at
\* most three fraction digits; exponents and digit-group underscores are not
\* in the alphabet of the model.
ValueError == [ok |-> FALSE, v |-> Fin(0)]

Parsed(v) == [ok |-> TRUE, v |-> v]

\* the fraction digits as thousandths
FractionMilli(fp) == NatOfDigits(fp \o SubSeq(<<"0", "0", "0">>, 1, 3 - Len(fp)))

ParseDigits(ip, fp, neg) ==
    IF AllDigits(ip) /\ AllDigits(fp) /\ Len(ip) + Len(fp) > 0 /\ Len(fp) <= 3
    THEN Parsed(Fin((IF neg THEN -1 ELSE 1)
                    * (1000 * NatOfDigits(ip) + FractionMilli(fp))))
    ELSE ValueError

ParseDecimal(u, d, neg) ==
    IF d = 0 THEN ParseDigits(u, <<>>, neg)
    ELSE ParseDigits(SubSeq(u, 1, d - 1), SubSeq(u, d + 1, Len(u)), neg)

ParseUnsigned(u, w, neg) ==
    IF w \in {<<"i", "n", "f">>, <<"i", "n", "f", "i", "n", "i", "t", "y">>}
    THEN Parsed(IF neg THEN NInf ELSE Inf)
    ELSE IF w = <<"n", "a", "n">> THEN Parsed(NaN)
    ELSE ParseDecimal(u, FirstDot(u), neg)

ParseSigned(t) ==
    IF t # <<>> /\ Head(t) \in {"-", "+"}
    THEN ParseUnsigned(Tail(t), LowerSeq(Tail(t)), Head(t) = "-")
    ELSE ParseUnsigned(t, LowerSeq(t), FALSE)

PyFloat(s) == ParseSigned(Strip(s))

\* round(x, 2) on thousandths; a tie (last digit 5) is not defined here
RoundMagnitude(a) ==
    CASE a % 10 < 5 -> a - (a % 10)
      [] a % 10 > 5 -> a - (a % 10) + 10

RoundMilli(m) == IF m < 0 THEN -RoundMagnitude(-m) ELSE RoundMagnitude(m)

Round2(v) == IF v.k = "fin" THEN Fin(RoundMilli(v.m)) ELSE v

\* x + y on floats
FAdd(x, y) ==
    CASE x.k = "nan" \/ y.k = "nan" -> NaN
      [] x.k = "fin" /\ y.k = "fin" -> Fin(x.m + y.m)
      [] x.k = "fin" -> y
      [] y.k = "fin" -> x
      [] x.k = y.k -> x
      [] OTHER -> NaN

----------------------------------------------------------------------------
(* calculate_summary *)

\* d.get(key, default)
Get(d, key, default) == IF key \in DOMAIN d THEN d[key] ELSE default

\* d[key] = value
Put(d, key, value) == (key :> value) @@ d

\* A variant of StoreField whose except clause leaves the field as it came.
StoreField_KeepsText(inv, key, total, p) ==
    IF p.ok
    THEN [inv |-> Put(inv, key, Round2(p.v)), total |-> FAdd(total, p.v)]
    ELSE [inv |-> inv, total |-> total]

\* The end of one try/except block of the loop body, p being what float()
\* gave: the field is stored rounded and the unrounded value added to the
\* running total; on ValueError the field becomes 0.0 and the total is left
\* alone.
StoreField(inv, key, total, p) ==
    IF p.ok
    THEN [inv |-> Put(inv, key, Round2(p.v)), total |-> FAdd(total, p.v)]
    ELSE [inv |-> Put(inv, key, Fin(0)), total |-> total]

\* One try/except block: float(str(inv.get(key, "0")).replace(",", ""))
NormalizeField(inv, key, total) ==
    StoreField(inv, key, total,
               PyFloat(StripCommas(PyStr(Get(inv, key, Str(<<"0">>))))))

\* A variant of WhtBlock that rebuilds the invoice from its two amounts.
WhtBlock_Rebuild(a, b) ==
    [inv |-> [Pre_VAT_Amount |-> b.inv.Pre_VAT_Amount, WHT |-> b.inv.WHT],
     total_pre_vat |-> a.total, total_wht |-> b.total]

\* The second try/except block of the loop body, a being the outcome of the
\* first
WhtBlock(a, b) ==
    [inv |-> b.inv, total_pre_vat |-> a.total, total_wht |-> b.total]

PreVatBlock(a, total_wht) == WhtBlock(a, NormalizeField(a.inv, "WHT", total_wht))

\* The loop body on one invoice
NormalizeInvoice(inv, total_pre_vat, total_wht) ==
    PreVatBlock(NormalizeField(inv, "Pre_VAT_Amount", total_pre_vat), total_wht)

\* The for loop over data.get("Invoices", []), from invoice i on.
RECURSIVE NormalizeInvoices(_, _, _, _)
RECURSIVE NextInvoice(_, _, _)
NextInvoice(invs, i, r) ==
    NormalizeInvoices([invs EXCEPT ![i] = r.inv], i + 1, r.total_pre_vat,
                      r.total_wht)

NormalizeInvoices(invs, i, total_pre_vat, total_wht) ==
    IF i > Len(invs)
    THEN [invs |-> invs, total_pre_vat |-> total_pre_vat, total_wht |-> total_wht]
    ELSE NextInvoice(invs, i, NormalizeInvoice(invs[i], total_pre_vat, total_wht))

\* The two assignments into data["Summary"] after the loop, r being what the
\* loop left.  The invoices are mutated in place, so they stay normalised
\* when data["Summary"] raises KeyError.
WriteSummary(d, d1, r) ==
    IF "Summary" \in DOMAIN d
    THEN [data |-> Put(d1, "Summary",
                       Put(Put(d.Summary, "Total_Pre_VAT_Amount",
                               Round2(r.total_pre_vat)),
                           "Total_WHT", Round2(r.total_wht))),
          raised |-> "none"]
    ELSE [data |-> d1, raised |-> "KeyError"]

\* A variant of AfterLoop that returns early when there is no invoice.
AfterLoop_EarlyReturn(d, r) ==
    IF r.invs = <<>> THEN [data |-> d, raised |-> "none"]
    ELSE WriteSummary(d, Put(d, "Invoices", r.invs), r)

AfterLoop(d, r) ==
    WriteSummary(d, IF "Invoices" \in DOMAIN d THEN Put(d, "Invoices", r.invs) ELSE d,
                 r)

\* calculate_summary(data): the object after the call and the exception that
\* escaped it
calculate_summary(d) ==
    AfterLoop(d, NormalizeInvoices(Get(d, "Invoices", <<>>), 1, Fin(0), Fin(0)))

----------------------------------------------------------------------------
(* The decoded objects calculate_summary is run on *)

C(s) == Str(s)

\* Values a monetary field arrives with: a JSON integer, a JSON float, text
\* with a thousands separator, text that rounds down to the cent below,
\* malformed text, a JSON null, negative text and special numeric text.
AmountInputs ==
    { JInt(1500), Fin(1234566), C(<<"5", "0", ",", "0", "0", "0">>),
      C(<<"0", ".", "0", "0", "4">>), C(<<"N", "/", "A">>), Null,
      C(<<"-", "5">>), C(<<"n", "a", "n">>) }

\* Marks a key the decoded object does not have.
Absent == Val("absent", <<>>, 0, "", 0)

\* The (Pre_VAT_Amount, WHT) pairs of the model's invoices: every input value
\* (or no key at all) in one field beside a plain number in the other, and
\* one invoice with both fields malformed.
AmountPairs ==
    LET all == AmountInputs \cup {Absent}
    IN  { <<x, JInt(1500)>> : x \in all } \cup { <<JInt(1500), x>> : x \in all }
        \cup { <<C(<<"N", "/", "A">>), C(<<>>)>> }

Invoice(desc, pre, wht) ==
    LET base == [Invoice_No |-> "INV-Temp", Description |-> desc]
        withPre == IF pre = Absent THEN base ELSE Put(base, "Pre_VAT_Amount", pre)
    IN  IF wht = Absent THEN withPre ELSE Put(withPre, "WHT", wht)

InvoiceInputs ==
    { Invoice(desc, pw[1], pw[2]) : desc \in {"a", "b"}, pw \in AmountPairs }

RECURSIVE SeqsUpTo(_, _)
SeqsUpTo(S, n) ==
    IF n = 0 THEN {<<>>}
    ELSE LET shorter == SeqsUpTo(S, n - 1)
         IN  shorter \cup { Append(q, x) : q \in shorter, x \in S }

Summary(pre, wht) == [Total_Pre_VAT_Amount |-> pre, Total_WHT |-> wht]

\* The Summary the reply carries: the 0.00 placeholder of the prompt in one
\* slot and a total the extraction filled in by itself in the other.
SummaryInputs == { Summary(Fin(0), JInt(7)) }

Header == [Receiver |-> "ABC Company", Branch_No |-> "00000"]

DataInputs ==
    LET withInvoices == { Put(Header, "Invoices", invs) :
                            invs \in SeqsUpTo(InvoiceInputs, MaxInvoices) }
        bodies == withInvoices \cup {Header}
    IN  bodies \cup { Put(b, "Summary", sm) : b \in bodies, sm \in SummaryInputs }

----------------------------------------------------------------------------
(* calculate_summary as a step *)

\* calculate_summary(data), the call process_one_company makes
Normalize ==
    /\ passes = 0
    /\ LET r == calculate_summary(data)
       IN  /\ data' = r.data
           /\ raised' = r.raised
           /\ once' = r.data
    /\ passes' = 1
    /\ UNCHANGED <<input, uiVars>>

\* calculate_summary applied to the object a first call returned
NormalizeAgain ==
    /\ passes = 1
    /\ raised = "none"
    /\ LET r == calculate_summary(data)
       IN  /\ data' = r.data
           /\ raised' = r.raised
    /\ passes' = 2
    /\ UNCHANGED <<input, once, uiVars>>

----------------------------------------------------------------------------
(* The session: company groups, their uploader widgets, the buttons *)

MaxGroups == 3

\* What a file_uploader widget can hold
UploadChoices == { <<>>, <<"f1">>, <<"f2">> }

NoAction == [op |-> "start", i |-> 0, before |-> <<>>]

Blank == [kind |-> "none", text |-> "", companies |-> <<>>]

InitUI ==
    /\ invoice_sets = << <<>> >>
    /\ uploader = << <<>> >>
    /\ last = NoAction
    /\ pc = "idle"
    /\ submitted = <<>>
    /\ companies = <<>>
    /\ replies = <<>>
    /\ log = <<>>
    /\ screen = Blank

\* The widgets uploader_0 .. uploader_{n-1} of a script run that renders n
\* groups: a widget keeps its value from the run before under its key, a key
\* rendered for the first time starts empty, and a key the run does not
\* render is dropped.
Widgets(old, n) == [k \in 1..n |-> IF k <= Len(old) THEN old[k] ELSE <<>>]

\* The uploader loop: "if uploaded: st.session_state.invoice_sets[i] = uploaded"
RenderUploaders(sets, widgets) ==
    [k \in 1..Len(sets) |-> IF widgets[k] # <<>> THEN widgets[k] ELSE sets[k]]

\* del st.session_state.invoice_sets[to_delete], and the list is reset to one
\* empty group when that leaves it empty
DeleteGroup(sets, i) ==
    LET rest == SubSeq(sets, 1, i - 1) \o SubSeq(sets, i + 1, Len(sets))
    IN  IF rest = <<>> THEN << <<>> >> ELSE rest

\* any(st.session_state.invoice_sets)
AnyFiles(sets) == \E k \in 1..Len(sets) : sets[k] # <<>>

\* Every script run that is not inside the batch starts from a blank page.
FreshRun ==
    /\ submitted' = <<>>
    /\ companies' = <<>>
    /\ replies' = <<>>
    /\ log' = <<>>

\* "Add another company": append an empty group, st.rerun(), and the rerun
\* renders the uploaders.
AddCompany ==
    /\ pc = "idle"
    /\ Len(invoice_sets) < MaxGroups
    /\ LET sets == Append(invoice_sets, <<>>)
           widgets == Widgets(uploader, Len(sets))
       IN  /\ invoice_sets' = RenderUploaders(sets, widgets)
           /\ uploader' = widgets
    /\ last' = [op |-> "add", i |-> Len(invoice_sets) + 1, before |-> invoice_sets]
    /\ screen' = Blank
    /\ FreshRun
    /\ UNCHANGED <<normVars, pc>>

\* The user changes the files of uploader i (possibly clearing it); the script
\* reruns and renders the uploaders.
Upload(i, files) ==
    /\ pc = "idle"
    /\ files # uploader[i]
    /\ LET widgets == [uploader EXCEPT ![i] = files]
       IN  /\ invoice_sets' = RenderUploaders(invoice_sets, widgets)
           /\ uploader' = widgets
    /\ last' = [op |-> "upload", i |-> i, before |-> invoice_sets]
    /\ screen' = Blank
    /\ FreshRun
    /\ UNCHANGED <<normVars, pc>>

\* The Delete button of group i: the run renders the uploaders, deletes the
\* group after the loop and calls st.rerun(); the rerun renders the uploaders
\* of the groups that are left.
Delete(i) ==
    /\ pc = "idle"
    /\ LET shown == RenderUploaders(invoice_sets, uploader)
           sets == DeleteGroup(shown, i)
           widgets == Widgets(uploader, Len(sets))
       IN  /\ invoice_sets' = RenderUploaders(sets, widgets)
           /\ uploader' = widgets
    /\ last' = [op |-> "delete", i |-> i, before |-> invoice_sets]
    /\ screen' = Blank
    /\ FreshRun
    /\ UNCHANGED <<normVars, pc>>

----------------------------------------------------------------------------
(* "Process All Companies" *)

\* Extraction replies: text that is not JSON, or text that decodes to an
\* object.
Reply(json, text, d) == [json |-> json, text |-> text, data |-> d]

ReplyDocs ==
    { Put(Put(Header, "Invoices",
              << Invoice("a", C(<<"5", "0", ",", "0", "0", "0">>), JInt(1500)),
                 Invoice("b", Fin(1234566), C(<<"N", "/", "A">>)) >>),
          "Summary", Summary(Fin(0), Fin(0))),
      Put(Put(Header, "Invoices", <<>>), "Summary", Summary(Fin(0), Fin(0))),
      Put(Header, "Invoices",
          << Invoice("a", JInt(1500), JInt(1500)) >>) }

Replies ==
    { Reply(FALSE, "Sorry, I cannot read these invoices.", Header) }
    \cup { Reply(TRUE, "", d) : d \in ReplyDocs }

Call(k, files) == [ev |-> "call", company |-> k, files |-> files]
Normalized(k) == [ev |-> "normalized", company |-> k, files |-> <<>>]

\* The button's run: the uploaders are rendered, then the batch starts when
\* any group holds a file, and a warning is shown otherwise.
ClickProcess ==
    /\ pc = "idle"
    /\ LET sets == RenderUploaders(invoice_sets, uploader)
       IN  /\ invoice_sets' = sets
           /\ IF AnyFiles(sets)
              THEN /\ pc' = "batch"
                   /\ submitted' = sets
                   /\ screen' = Blank
              ELSE /\ pc' = "idle"
                   /\ submitted' = <<>>
                   /\ screen' = [kind |-> "warning",
                                 text |-> "Please upload at least one invoice.",
                                 companies |-> <<>>]
    /\ companies' = <<>>
    /\ replies' = <<>>
    /\ log' = <<>>
    /\ last' = [op |-> "process", i |-> 0, before |-> invoice_sets]
    /\ UNCHANGED <<normVars, uploader>>

\* A variant of AppendCompany that puts the newest result first.
AppendCompany_Prepend(done, company_data) == <<company_data>> \o done

\* companies.append(company_data)
AppendCompany(done, company_data) == Append(done, company_data)

\* A variant of Abort that shows the failure and goes on with the loop.
Abort_Continue(kind, text) ==
    /\ screen' = [kind |-> kind, text |-> text, companies |-> <<>>]
    /\ companies' = Append(companies, Header)
    /\ pc' = pc

\* An exception leaves process_one_company, process_multiple_companies and
\* the script run: nothing is returned, and the page shows the exception
\* below what process_one_company wrote (the raw reply, for a reply that is
\* not JSON).
Abort(kind, text) ==
    /\ screen' = [kind |-> kind, text |-> text, companies |-> <<>>]
    /\ companies' = <<>>
    /\ pc' = "idle"

\* One iteration of the loop of process_multiple_companies: process_one_company
\* sends the group's files, decodes the reply and normalises it.  A reply that
\* is not JSON is shown and the JSONDecodeError re-raised; it, like a KeyError
\* out of calculate_summary, ends the script run.
ProcessOneCompany ==
    /\ pc = "batch"
    /\ Len(companies) < Len(submitted)
    /\ \E reply \in Replies :
         LET idx == Len(companies) + 1
             r == calculate_summary(reply.data)
         IN  /\ replies' = Append(replies, reply)
             /\ IF ~reply.json
                THEN /\ log' = Append(log, Call(idx, submitted[idx]))
                     /\ Abort("JSONDecodeError", reply.text)
                ELSE IF r.raised # "none"
                THEN /\ log' = Append(log, Call(idx, submitted[idx]))
                     /\ Abort(r.raised, "")
                ELSE /\ log' = log \o <<Call(idx, submitted[idx]), Normalized(idx)>>
                     /\ companies' = AppendCompany(companies, r.data)
                     /\ UNCHANGED <<screen, pc>>
    /\ UNCHANGED <<normVars, invoice_sets, uploader, last, submitted>>

\* The loop is over: the envelope {"companies": companies} is returned, shown
\* with st.json and offered for download.
ShowResult ==
    /\ pc = "batch"
    /\ Len(companies) = Len(submitted)
    /\ screen' = [kind |-> "result", text |-> "all_companies.json",
                  companies |-> companies]
    /\ companies' = <<>>
    /\ pc' = "idle"
    /\ UNCHANGED <<normVars, invoice_sets, uploader, last, submitted, replies, log>>

Init ==
    /\ input = Header
    /\ data = Header
    /\ once = Header
    /\ passes = 0
    /\ raised = "none"
    /\ InitUI

Next ==
    \/ AddCompany
    \/ \E i \in 1..Len(invoice_sets) : \E files \in UploadChoices : Upload(i, files)
    \/ \E i \in 1..Len(invoice_sets) : Delete(i)
    \/ ClickProcess
    \/ ProcessOneCompany
    \/ ShowResult

Spec == Init /\ [][Next]_vars

----------------------------------------------------------------------------
(* Specification of the normaliser: any decoded object of DataInputs, then
   calculate_summary on it, and once more on what the first call returned. *)

InitNormalizer ==
    /\ input \in DataInputs
    /\ data = input
    /\ once = input
    /\ passes = 0
    /\ raised = "none"
    /\ InitUI

NextNorm == Normalize \/ NormalizeAgain

SpecNorm == InitNormalizer /\ [][NextNorm]_vars

----------------------------------------------------------------------------
(* Properties of calculate_summary, checked under SpecNorm *)

MoneyKeys == {"Pre_VAT_Amount", "WHT"}

Invs(d) == Get(d, "Invoices", <<>>)

\* what float() makes of a monetary field as it arrived
ParsedField(inv, key) == PyFloat(StripCommas(PyStr(Get(inv, key, Str(<<"0">>)))))

\* x + y over the values stored under key, in sequence order
RECURSIVE SumStored(_, _)
SumStored(invs, key) ==
    IF invs = <<>> THEN Fin(0)
    ELSE FAdd(SumStored(SubSeq(invs, 1, Len(invs) - 1), key), invs[Len(invs)][key])

\* x + y over the values float() gave for key, the fields it rejected left out
RECURSIVE SumParsed(_, _)
SumParsed(invs, key) ==
    IF invs = <<>> THEN Fin(0)
    ELSE LET rest == SumParsed(SubSeq(invs, 1, Len(invs) - 1), key)
             p == ParsedField(invs[Len(invs)], key)
         IN  IF p.ok THEN FAdd(rest, p.v) ELSE rest

\* A valid CompanyResult: a Summary, and in every invoice both amounts, each a
\* number or numeric text that is finite and not negative.
ValidInput(d) ==
    /\ "Summary" \in DOMAIN d
    /\ "Invoices" \in DOMAIN d
    /\ \A i \in 1..Len(d.Invoices) : \A key \in MoneyKeys :
         /\ key \in DOMAIN d.Invoices[i]
         /\ ParsedField(d.Invoices[i], key).ok
         /\ ParsedField(d.Invoices[i], key).v.k = "fin"
         /\ ParsedField(d.Invoices[i], key).v.m >= 0

\* C1: after calculate_summary on a valid input, each Summary total equals the
\* 2-decimal rounding of the sum of the amounts as stored (already rounded) in
\* the invoices.
C1_TotalsOfStoredAmounts ==
    (passes = 1 /\ ValidInput(input)) =>
        /\ raised = "none"
        /\ data.Summary.Total_Pre_VAT_Amount
             = Round2(SumStored(data.Invoices, "Pre_VAT_Amount"))
        /\ data.Summary.Total_WHT = Round2(SumStored(data.Invoices, "WHT"))

\* C2: calculate_summary is idempotent: on a valid input the second call
\* leaves the object exactly as the first call left it.
C2_Idempotent ==
    (passes = 2 /\ ValidInput(input)) => data = once

\* C3: after calculate_summary every invoice's Pre_VAT_Amount and WHT is a
\* finite number, not negative, with at most two decimals, whatever the field
\* held, and 0.00 where the field held malformed text.
C3_AmountsFiniteNonNegative ==
    passes >= 1 =>
        \A i \in 1..Len(Invs(data)) : \A key \in MoneyKeys :
            /\ key \in DOMAIN Invs(data)[i]
            /\ Invs(data)[i][key].t = "float"
            /\ Invs(data)[i][key].k = "fin"
            /\ Invs(data)[i][key].m >= 0
            /\ Invs(data)[i][key].m % 10 = 0
            /\ (~ParsedField(Invs(input)[i], key).ok => Invs(data)[i][key] = Fin(0))

\* the value a field must hold after the call
Expected(inv, key) ==
    IF ParsedField(inv, key).ok THEN Round2(ParsedField(inv, key).v) ELSE Fin(0)

\* C4: a monetary field that does not parse is set to 0.00; no exception
\* escapes because of it; it adds nothing to its total; the other monetary
\* field of the invoice and both fields of every later invoice are still
\* normalised.
C4_MalformedFieldDefaults ==
    passes = 1 =>
        \A i \in 1..Len(Invs(input)) : \A key \in MoneyKeys :
            ~ParsedField(Invs(input)[i], key).ok =>
                /\ Invs(data)[i][key] = Fin(0)
                /\ raised = (IF "Summary" \in DOMAIN input THEN "none" ELSE "KeyError")
                /\ \A other \in MoneyKeys \ {key} :
                     Invs(data)[i][other] = Expected(Invs(input)[i], other)
                /\ \A j \in (i + 1)..Len(Invs(input)) : \A k \in MoneyKeys :
                     Invs(data)[j][k] = Expected(Invs(input)[j], k)
                /\ "Summary" \in DOMAIN input =>
                     data.Summary[IF key = "WHT" THEN "Total_WHT"
                                  ELSE "Total_Pre_VAT_Amount"]
                       = Round2(SumParsed(Invs(input), key))

\* C4's case: a malformed field beside a field that parses, in an invoice
\* that is followed by another one, has been normalised.
C4_Witness ==
    /\ passes = 1
    /\ raised = "none"
    /\ Len(Invs(input)) = 2
    /\ ~ParsedField(Invs(input)[1], "WHT").ok
    /\ Invs(data)[1]["Pre_VAT_Amount"] = Fin(1500000)
    /\ Invs(data)[2]["Pre_VAT_Amount"] = Fin(50000000)

\* C5: with a Summary and no "Invoices" key, or an empty list under it, no
\* exception escapes and Summary ends as {0.00, 0.00} whatever it held.
C5_NoInvoicesZeroTotals ==
    (passes >= 1 /\ "Summary" \in DOMAIN input /\ Invs(input) = <<>>) =>
        /\ raised = "none"
        /\ data.Summary = Summary(Fin(0), Fin(0))

\* C5's case: an object without the "Invoices" key, whose Summary held other
\* values, has been normalised.
C5_Witness ==
    /\ passes = 1
    /\ "Invoices" \notin DOMAIN input
    /\ "Summary" \in DOMAIN input
    /\ input.Summary # Summary(Fin(0), Fin(0))
    /\ data.Summary = Summary(Fin(0), Fin(0))

\* C6: calculate_summary changes nothing but the two amounts of each invoice
\* and the two Summary totals: the header fields, the other fields of every
\* invoice, and the number and order of the invoices stay as they were.
C6_Frame ==
    passes >= 1 =>
        /\ DOMAIN data = DOMAIN input
        /\ \A k \in DOMAIN input \ {"Invoices", "Summary"} : data[k] = input[k]
        /\ "Summary" \in DOMAIN input =>
             /\ DOMAIN data.Summary = DOMAIN input.Summary
                                        \cup {"Total_Pre_VAT_Amount", "Total_WHT"}
             /\ \A k \in DOMAIN input.Summary \ {"Total_Pre_VAT_Amount", "Total_WHT"} :
                  data.Summary[k] = input.Summary[k]
        /\ Len(Invs(data)) = Len(Invs(input))
        /\ \A i \in 1..Len(Invs(input)) :
             /\ DOMAIN Invs(data)[i] = DOMAIN Invs(input)[i] \cup MoneyKeys
             /\ \A k \in DOMAIN Invs(input)[i] \ MoneyKeys :
                  Invs(data)[i][k] = Invs(input)[i][k]

\* C6's case: two invoices that differ in their Description have been
\* normalised and their amounts rewritten.
C6_Witness ==
    /\ passes = 1
    /\ Len(Invs(input)) = 2
    /\ Invs(input)[1].Description # Invs(input)[2].Description
    /\ Invs(data) # Invs(input)
    /\ data.Receiver = "ABC Company"

----------------------------------------------------------------------------
(* Properties of the batch and of the session, checked under Spec *)

\* C7: when the batch returns an envelope, companies has one entry per
\* submitted group (groups without files included), entry k is the normalised
\* reply of the extraction call made for group k, and every group's call and
\* normalisation precede the next group's call.
C7_EnvelopeInSubmissionOrder ==
    /\ \A j \in 1..Len(log) :
         log[j] = IF j % 2 = 1 THEN Call((j + 1) \div 2, submitted[(j + 1) \div 2])
                  ELSE Normalized(j \div 2)
    /\ screen.kind = "result" =>
         /\ submitted = invoice_sets
         /\ Len(screen.companies) = Len(invoice_sets)
         /\ Len(replies) = Len(invoice_sets)
         /\ Len(log) = 2 * Len(invoice_sets)
         /\ \A k \in 1..Len(invoice_sets) :
              /\ replies[k].json
              /\ screen.companies[k] = calculate_summary(replies[k].data).data

\* C7's case: an envelope for three groups, one of them without files, whose
\* first two replies differ.
C7_Witness ==
    /\ screen.kind = "result"
    /\ Len(invoice_sets) = 3
    /\ invoice_sets[2] = <<>>
    /\ replies[1] # replies[2]
    /\ Len(screen.companies) = 3

\* C8: when the reply for company N is not JSON, its raw text is shown, the
\* run is over, no call was made for a company after N, and no envelope is
\* kept, shown or offered: the results of companies 1..N-1 are gone.
C8_AllOrNothing ==
    screen.kind = "JSONDecodeError" =>
        /\ pc = "idle"
        /\ companies = <<>>
        /\ screen.companies = <<>>
        /\ replies # <<>>
        /\ ~replies[Len(replies)].json
        /\ screen.text = replies[Len(replies)].text
        /\ \A k \in 1..(Len(replies) - 1) : replies[k].json
        /\ Len(log) = 2 * Len(replies) - 1
        /\ log[Len(log)] = Call(Len(replies), submitted[Len(replies)])
        /\ ~ENABLED ProcessOneCompany
        /\ ~ENABLED ShowResult

\* C8's case: the second of three companies got a reply that is not JSON,
\* after the first company's result had been computed.
C8_Witness ==
    /\ screen.kind = "JSONDecodeError"
    /\ Len(submitted) = 3
    /\ Len(replies) = 2
    /\ replies[1].json

\* C9: the session list holds at least one group in every reachable state,
\* and deleting the only group leaves a single empty group.
C9_AtLeastOneGroup ==
    /\ Len(invoice_sets) >= 1
    /\ (last.op = "delete" /\ Len(last.before) = 1) => invoice_sets = << <<>> >>

\* the part of C9 about the length alone
AtLeastOneGroup == Len(invoice_sets) >= 1 /\ Len(uploader) = Len(invoice_sets)

\* C10: deleting group i of several leaves, after the rerun, the other groups
\* with their files, in their order.
C10_DeleteRemovesSelected ==
    (last.op = "delete" /\ Len(last.before) > 1) =>
        invoice_sets = SubSeq(last.before, 1, last.i - 1)
                         \o SubSeq(last.before, last.i + 1, Len(last.before))

====
